---- MODULE Spec2Model ----
(***************************************************************************)
(* The authentication router of the summarization platform                *)
(* (src/app/routers/auth.py): register, login, GET /auth/me, PUT /auth/me *)
(* running as concurrent requests over one credential store.              *)
(*                                                                         *)
(* A request occupies a slot of Req.  Its first step is get_db up to the   *)
(* yield: the framework resolves the dependency, and with it opens the    *)
(* session, before it calls the handler.  The handler is then cut at its  *)
(* accesses to what requests share: every round trip to the database (a   *)
(* query, a commit, a refresh) and every read of the clock is a step of   *)
(* its own, taken together with the local computation that follows it.    *)
(* Any round trip may raise, which ends the request with a 500.  The      *)
(* release of the session by get_db's finally block is the last step.     *)
(*                                                                         *)
(* The Authorization header is recorded when the request arrives, since   *)
(* the tokens a client can present are those issued by then; a field of   *)
(* the body, whose possible values are the same at every moment, is       *)
(* recorded in req when the handler first reads it.                       *)
(***************************************************************************)
EXTENDS Integers, Sequences, FiniteSets, TLC

\* ------------------------------------------------------------------ bounds
MaxUsers == 2
MaxClock == 1

\* ------------------------------------------------------------ input domains
Req == {1, 2}
Names == {"Ann", "Bob"}
Emails == {"a@x.com", "b@x.com"}
Passwords == {"secret123", "wrong"}

\* Python's None for an optional string, for a missing row, for a missing dict
NONE == "<None>"
NoUser == [none |-> TRUE]
NoPayload == [none |-> TRUE]
NoBody == [none |-> TRUE]
NoSession == 0

\* ------------------------------------------------------- password hasher
\* pwd_context.hash: a bcrypt string embeds the salt and the digest of
\* (salt, plaintext); the plaintext itself is not part of it.
PwdHash(password, salt) ==
    [scheme |-> "bcrypt", salt |-> salt, digest |-> <<salt, password>>]

\* pwd_context.verify: recompute with the embedded salt and compare.
PwdVerify(password, hashed) ==
    hashed.digest = <<hashed.salt, password>>

\* ------------------------------------------------------------ token codec
TTL == 1
SECRET == "SECRET_KEY"

Sign(key, claims) == [key |-> key, over |-> claims]

\* create_access_token(data): the data plus an expiry, signed.
create_access_token(data, clock) ==
    LET claims == [k \in DOMAIN data \cup {"exp"} |->
                      IF k = "exp" THEN clock + TTL ELSE data[k]]
    IN  [claims |-> claims, mac |-> Sign(SECRET, claims)]

\* ------------------------------------------------------ Authorization header
\* A header value is a string, modelled as the sequence of its characters,
\* each character being its code point.  The server decodes the bytes of a
\* header as latin-1, so the code points of a header are those of HeaderChars.
\* The text of a token, which holds no space, is taken as one unit.
HeaderChars == 0..255
Ch(c) == [ch |-> c]
SP == Ch(32)
Str(cs) == [i \in 1..Len(cs) |-> Ch(cs[i])]
Tok(t) == [jwt |-> t]
IsTok(a) == "jwt" \in DOMAIN a

NoHeader == [given |-> FALSE, text |-> <<>>]
Hdr(text) == [given |-> TRUE, text |-> text]

\* Mutant: a token is still good at the instant it expires.
decode_access_token_Late(text, clock) ==
    IF /\ Len(text) = 1
       /\ IsTok(text[1])
       /\ text[1].jwt.mac = Sign(SECRET, text[1].jwt.claims)
       /\ clock <= text[1].jwt.claims.exp
    THEN text[1].jwt.claims
    ELSE NoPayload

\* decode_access_token(token): the claims when the text is one token whose
\* signature verifies under the secret and which has not expired, else None.
decode_access_token(text, clock) ==
    IF /\ Len(text) = 1
       /\ IsTok(text[1])
       /\ text[1].jwt.mac = Sign(SECRET, text[1].jwt.claims)
       /\ clock < text[1].jwt.claims.exp
    THEN text[1].jwt.claims
    ELSE NoPayload

\* str.partition(" "): split at the first space.
Partition(text) ==
    LET spaces == {i \in 1..Len(text) : text[i] = SP}
    IN  IF spaces = {}
        THEN [head |-> text, tail |-> <<>>]
        ELSE LET i == CHOOSE k \in spaces : \A j \in spaces : k <= j
             IN  [head |-> SubSeq(text, 1, i - 1),
                  tail |-> SubSeq(text, i + 1, Len(text))]

\* str.lower() on one character of HeaderChars: the capitals A-Z (65..90)
\* and the latin-1 capitals U+00C0..U+00DE, without the multiplication sign
\* U+00D7, go to the letter 32 code points up; every other character stays.
LowerChar(c) ==
    IF c \in 65..90 \/ (c \in 192..222 /\ c # 215) THEN c + 32 ELSE c

\* str.lower(): character by character (over HeaderChars every character
\* lowers to one character); the lowered text of a token is a unit of its
\* own.
Lower(text) ==
    [i \in 1..Len(text) |->
        IF IsTok(text[i]) THEN [lowered |-> text[i].jwt]
                          ELSE Ch(LowerChar(text[i].ch))]

\* ------------------------------------------------------- credential store
VARIABLES
    users,      \* the users table: a sequence of rows, row i has id i
    now,        \* the clock
    issued,     \* the token of the latest successful login, which the
                \* client holds and presents
    pc,         \* per request slot: the line its handler has reached
    req,        \* per slot: the request being served
    local,      \* per slot: the handler's variables: the decoded payload,
                \* the User object and its dirty columns
    resp,       \* per slot: the response, once the handler has ended
    sess,       \* per slot: the session get_db yielded
    dbOpen,     \* the sessions that are open
    queries,    \* per slot: store queries issued by the request so far
    workers,    \* the slots the server runs requests in
    pool        \* what the run draws on: the names and passwords clients
                \* register with, their headers, the ticks of the clock,
                \* the rows the store takes

vars == <<users, now, issued, pc, req, local, resp, sess, dbOpen, queries,
          workers, pool>>

Rows(tbl) == {tbl[i] : i \in 1..Len(tbl)}

\* db.query(User).filter(User.email == email).first(): a matching row, or None.
\* The query has no ORDER BY, so any matching row may come first.
FirstByEmail(tbl, email) ==
    LET hits == {u \in Rows(tbl) : u.email = email}
    IN  IF hits = {} THEN {NoUser} ELSE hits

\* db.query(User).filter(User.id == user_id).first()
FirstById(tbl, user_id) ==
    IF user_id \in 1..Len(tbl) THEN tbl[user_id] ELSE NoUser

\* Credential store contract, insert: the row is appended under the next id;
\* the store itself enforces no uniqueness of email.
StoreInsert(tbl, row) == Append(tbl, row)

\* Credential store contract, update: the dirty columns of the row with the
\* object's id are overwritten, the others keep their stored values.
StoreUpdate(tbl, obj, dirty) ==
    [tbl EXCEPT ![obj.id] =
        [@ EXCEPT !.name = IF "name" \in dirty THEN obj.name ELSE @,
                  !.email = IF "email" \in dirty THEN obj.email ELSE @]]

\* response_model=UserResponse / UserMeResponse.from_orm(user)
PublicFields(u) == [id |-> u.id, name |-> u.name, email |-> u.email]

\* ---------------------------------------------------------------- responses
Ok(body) == [status |-> 200, detail |-> "", body |-> body]
HTTPException(status_code, detail) ==
    [status |-> status_code, detail |-> detail, body |-> NoBody]
NoResp == [status |-> 0, detail |-> "", body |-> NoBody]

\* An exception that is no HTTPException: the framework answers 500.
InternalServerError == HTTPException(500, "Internal Server Error")

NoReq == [op |-> "none", name |-> NONE, email |-> NONE, password |-> NONE,
          authorization |-> NoHeader]
NoLocal == [payload |-> NoPayload, user |-> NoUser, dirty |-> {}]

\* ------------------------------------------------------------------ get_db
\* SessionLocal(): a new session object, distinct from every live one.
SessionLocal == CHOOSE s \in 1..Cardinality(Req) : s \notin dbOpen

\* get_db up to its yield: the request gets its own session.
Acquire(r) ==
    /\ r \in workers
    /\ pc[r] = "idle"
    /\ \A q \in workers : pc[q] = "idle" => r <= q
    /\ sess' = [sess EXCEPT ![r] = SessionLocal]
    /\ dbOpen' = dbOpen \cup {SessionLocal}

\* Mutant: no finally block, the session is closed on a normal return only.
Release_OnReturnOnly(r) ==
    /\ dbOpen' = IF resp[r].status = 200 THEN dbOpen \ {sess[r]} ELSE dbOpen
    /\ sess' = [sess EXCEPT ![r] = NoSession]

\* get_db after its yield: the finally block closes the session whether the
\* handler returned or raised.
Release(r) ==
    /\ dbOpen' = dbOpen \ {sess[r]}
    /\ sess' = [sess EXCEPT ![r] = NoSession]

\* The server starts with an empty store.  It runs either one request at a
\* time, with clients drawing on every name, password and header while the
\* clock runs to MaxClock and the store takes MaxUsers rows, or two requests
\* concurrently over one tick of the clock and a store of two rows, with
\* clients registering under one name and one password and sending
\* well-formed headers.
InitStore ==
    /\ users = <<>>
    /\ now = 0
    /\ issued = {}
    /\ pc = [r \in Req |-> "idle"]
    /\ req = [r \in Req |-> NoReq]
    /\ local = [r \in Req |-> NoLocal]
    /\ resp = [r \in Req |-> NoResp]
    /\ sess = [r \in Req |-> NoSession]
    /\ dbOpen = {}
    /\ queries = [r \in Req |-> 0]

InitSeq ==
    /\ InitStore
    /\ workers = {1}
    /\ pool = [names |-> Names, passwords |-> Passwords, anyHeader |-> TRUE,
               ticks |-> MaxClock, rows |-> MaxUsers]

InitConc ==
    /\ InitStore
    /\ workers = Req
    /\ pool = [names |-> {"Ann"}, passwords |-> {"secret123"},
               anyHeader |-> FALSE, ticks |-> 1, rows |-> 2]

Init == InitSeq \/ InitConc

\* The handler of slot r ends with response rs.
Exit(r, rs) ==
    /\ pc' = [pc EXCEPT ![r] = "exit"]
    /\ resp' = [resp EXCEPT ![r] = rs]

\* ------------------------------------------------- the requests clients send
\* A client may alter a token it holds; the signature then no longer matches.
Tampered(t) ==
    {[t EXCEPT !.claims.user_id = u] : u \in (1..MaxUsers) \ {t.claims.user_id}}
        \cup {[t EXCEPT !.claims.exp = MaxClock + TTL + 1]}

\* Tokens signed with the secret that login did not mint: without a user_id
\* claim, or naming an id the store never assigns.
ForeignTokens ==
    { LET c == [sub |-> "a@x.com", exp |-> MaxClock + TTL + 1]
      IN  [claims |-> c, mac |-> Sign(SECRET, c)],
      LET c == [sub |-> "a@x.com", user_id |-> 0, exp |-> MaxClock + TTL + 1]
      IN  [claims |-> c, mac |-> Sign(SECRET, c)] }

\* The scheme words clients write: Bearer, BEARER, bEaReR, Token, and BEARER
\* with its A replaced by the latin-1 capital U+00C0.
Bearer == Str(<<66, 101, 97, 114, 101, 114>>)
Schemes ==
    {Bearer, Str(<<66, 69, 65, 82, 69, 82>>),
     Str(<<98, 69, 97, 82, 101, 82>>), Str(<<84, 111, 107, 101, 110>>),
     Str(<<66, 69, 192, 82, 69, 82>>)}
\* The text xyz.
Xyz == Str(<<120, 121, 122>>)

AllHeaders ==
    {NoHeader, Hdr(<<>>), Hdr(Bearer), Hdr(Bearer \o <<SP>>),
     Hdr(Str(<<84, 111, 107, 101, 110>>) \o <<SP>> \o Xyz),
     Hdr(Bearer \o <<SP>> \o Xyz)}
        \cup {Hdr(s \o <<SP, Tok(t)>>) :
                s \in Schemes,
                t \in issued \cup UNION {Tampered(i) : i \in issued}}
        \cup {Hdr(<<Tok(t)>>) : t \in issued}
        \cup {Hdr(Bearer \o <<SP, Tok(t)>>) : t \in ForeignTokens}

\* The headers clients send: every form above, or only no header and a
\* well-formed "Bearer <token>" with a token login returned.
HeaderInputs ==
    IF pool.anyHeader
    THEN AllHeaders
    ELSE {NoHeader} \cup {Hdr(Bearer \o <<SP, Tok(t)>>) : t \in issued}

\* ----------------------------------------------------------------- arrival
\* A request reaches one of the four routes.  Depends(get_db) is resolved
\* first: get_db runs to its yield and the request holds its session; the
\* handler has not been called yet.
Arrive(r) ==
    \E op \in {"register", "login", "get_me", "put_me"} :
    \E authorization \in IF op \in {"get_me", "put_me"}
                         THEN HeaderInputs ELSE {NoHeader} :
        /\ Acquire(r)
        /\ req' = [req EXCEPT ![r] = [NoReq EXCEPT !.op = op,
                       !.authorization = authorization]]
        /\ pc' = [pc EXCEPT ![r] = "open"]
        /\ UNCHANGED <<users, now, issued, local, resp, queries, workers,
                       pool>>

\* The handler of route `op` is called for slot r.
Called(r, op) == pc[r] = "open" /\ req[r].op = op

\* ---------------------------------------------------------------- register
\* Mutant: the existence check is dropped.
IsRegistered_Never(existing_user) == FALSE

\* Line 37: `if existing_user:`
IsRegistered(existing_user) == existing_user # NoUser

\* Lines 34-39: register(user, db) up to the rejection of a known email.
RegisterLookup(r, name, email, password) ==
    \E existing_user \in FirstByEmail(users, email) :
        /\ Called(r, "register")
        /\ req' = [req EXCEPT ![r].name = name, ![r].email = email,
                              ![r].password = password]
        /\ queries' = [queries EXCEPT ![r] = 1]
        /\ IF IsRegistered(existing_user)
           THEN Exit(r, HTTPException(400, "Email already registered."))
           ELSE /\ pc' = [pc EXCEPT ![r] = "reg_checked"]
                /\ UNCHANGED resp
        /\ UNCHANGED <<users, now, issued, local, sess, dbOpen, workers,
                       pool>>

\* Mutant: registrations of one email exclude each other from the check to
\* the commit.
RegisterCheck_Serialized(r) ==
    \E name \in pool.names, email \in Emails, password \in pool.passwords :
        /\ \A q \in Req : ~(pc[q] = "reg_checked" /\ req[q].email = email)
        /\ RegisterLookup(r, name, email, password)

\* Lines 34-39: the handler of POST /auth/register runs up to its check.
RegisterCheck(r) ==
    \E name \in pool.names, email \in Emails, password \in pool.passwords :
        RegisterLookup(r, name, email, password)

\* Mutant: a register that finds its email taken at commit overwrites that
\* identity instead of inserting.
RegisterCommit_Upsert(r) ==
    /\ pc[r] = "reg_checked"
    /\ Len(users) < pool.rows
    /\ LET new_user == [id |-> Len(users) + 1,
                        name |-> req[r].name,
                        email |-> req[r].email,
                        hashed_password |->
                            PwdHash(req[r].password, Len(users) + 1)]
           taken == {u \in Rows(users) : u.email = req[r].email}
       IN  IF taken = {}
           THEN /\ users' = StoreInsert(users, new_user)
                /\ local' = [local EXCEPT ![r].user = new_user]
           ELSE \E u \in taken :
                /\ users' = [users EXCEPT ![u.id] =
                                [new_user EXCEPT !.id = u.id]]
                /\ local' = [local EXCEPT ![r].user = users'[u.id]]
    /\ pc' = [pc EXCEPT ![r] = "reg_committed"]
    /\ UNCHANGED <<now, issued, req, resp, sess, dbOpen, queries, workers,
                   pool>>

\* Lines 40-47: hash the password, build the row, add it and commit.
RegisterCommit(r) ==
    /\ pc[r] = "reg_checked"
    /\ Len(users) < pool.rows
    /\ LET new_user == [id |-> Len(users) + 1,
                        name |-> req[r].name,
                        email |-> req[r].email,
                        hashed_password |->
                            PwdHash(req[r].password, Len(users) + 1)]
       IN  /\ users' = StoreInsert(users, new_user)
           /\ local' = [local EXCEPT ![r].user = new_user]
    /\ pc' = [pc EXCEPT ![r] = "reg_committed"]
    /\ UNCHANGED <<now, issued, req, resp, sess, dbOpen, queries, workers,
                   pool>>

\* Lines 48-50: refresh the object from the store and return it.
RegisterRefresh(r) ==
    /\ pc[r] = "reg_committed"
    /\ Exit(r, Ok(PublicFields(FirstById(users, local[r].user.id))))
    /\ UNCHANGED <<users, now, issued, req, local, sess, dbOpen, queries,
                   workers, pool>>

\* ------------------------------------------------------------------- login
\* Lines 62-65: the claims login puts in the token.
\* Mutant: the token carries the row's zero-based position, not its id.
TokenData_RowNumber(user) == [sub |-> user.email, user_id |-> user.id - 1]

\* Mutant: the whole row goes into the token's claims.
TokenData_WithHash(user) ==
    [sub |-> user.email, user_id |-> user.id,
     hashed_password |-> user.hashed_password]

TokenData(user) == [sub |-> user.email, user_id |-> user.id]

\* Mutant: an unknown email and a wrong password are told apart.
LoginResponse_Enumerating(user, password, clock) ==
    IF user = NoUser
    THEN HTTPException(404, "User not found")
    ELSE IF ~PwdVerify(password, user.hashed_password)
    THEN HTTPException(401, "Incorrect password")
    ELSE Ok([access_token |-> create_access_token(TokenData(user), clock),
             token_type |-> "bearer"])

\* Lines 57-71: what login answers once the lookup has returned `user`.
LoginResponse(user, password, clock) ==
    IF user = NoUser \/ ~PwdVerify(password, user.hashed_password)
    THEN HTTPException(401, "Invalid credentials")
    ELSE Ok([access_token |-> create_access_token(TokenData(user), clock),
             token_type |-> "bearer"])

\* Lines 55-56: the handler of POST /auth/login looks its email up.
LoginQuery(r) ==
    \E email \in Emails :
    \E user \in FirstByEmail(users, email) :
        /\ Called(r, "login")
        /\ req' = [req EXCEPT ![r].email = email]
        /\ local' = [local EXCEPT ![r].user = user]
        /\ queries' = [queries EXCEPT ![r] = 1]
        /\ pc' = [pc EXCEPT ![r] = "login_queried"]
        /\ UNCHANGED <<users, now, issued, resp, sess, dbOpen, workers,
                       pool>>

\* Lines 57-71: verify the password against the row found and mint the
\* token at the clock's current reading.
LoginVerify(r) ==
    /\ pc[r] = "login_queried"
    /\ \E password \in Passwords :
       LET rs == LoginResponse(local[r].user, password, now)
       IN  /\ req' = [req EXCEPT ![r].password = password]
           /\ Exit(r, rs)
           /\ issued' = IF rs.status = 200
                        THEN {rs.body.access_token} ELSE issued
    /\ UNCHANGED <<users, now, local, sess, dbOpen, queries, workers, pool>>

\* ------------------------------------------------------- GET and PUT /me
\* Mutant: the scheme is compared without lowering it.
IsBearer_CaseSensitive(scheme) == scheme = Bearer

\* Lines 80 and 105: `scheme.lower() != "bearer"`, negated.
IsBearer(scheme) == Lower(scheme) = Str(<<98, 101, 97, 114, 101, 114>>)

\* Mutant: PUT /me never finds its email taken.
EmailCollides_Never(existing_user, user_id) == FALSE

\* Line 121: `existing_user and existing_user.id != user_id`
EmailCollides(existing_user, user_id) ==
    existing_user # NoUser /\ existing_user.id # user_id

\* Mutant: the caller is looked up by the token's sub claim.
ResolveCaller_BySub(tbl, payload) ==
    LET holders == {u \in Rows(tbl) : u.email = payload.sub}
    IN  IF holders = {} THEN NoUser ELSE CHOOSE u \in holders : TRUE

\* Lines 87-88 (and 112-113): the caller is the row whose id is the payload's
\* user_id.
ResolveCaller(tbl, payload) == FirstById(tbl, payload.user_id)

\* Lines 76-85 (and 101-110): header, scheme and token, decode at the
\* clock's current reading.
Authenticate(authorization, clock) ==
    IF ~authorization.given \/ authorization.text = <<>>
    THEN [error |-> HTTPException(401, "Authorization header missing"),
          payload |-> NoPayload]
    ELSE
    LET p == Partition(authorization.text)
        scheme == p.head
        token == p.tail
    IN  IF ~IsBearer(scheme) \/ token = <<>>
        THEN [error |-> HTTPException(401, "Invalid authorization format"),
              payload |-> NoPayload]
        ELSE
        LET payload == decode_access_token(token, clock)
        IN  IF payload = NoPayload \/ "user_id" \notin DOMAIN payload
            THEN [error |-> HTTPException(401, "Invalid or expired token"),
                  payload |-> NoPayload]
            ELSE [error |-> NoResp, payload |-> payload]

\* Lines 76-85 and 101-110: the handler of route `op` runs up to the decoded
\* payload, reading the clock once, in decode_access_token.
Decode(r, op, at) ==
    LET a == Authenticate(req[r].authorization, now)
    IN  /\ Called(r, op)
        /\ IF a.error # NoResp
           THEN Exit(r, a.error) /\ UNCHANGED local
           ELSE /\ local' = [local EXCEPT ![r].payload = a.payload]
                /\ pc' = [pc EXCEPT ![r] = at]
                /\ UNCHANGED resp
        /\ UNCHANGED <<users, now, issued, req, sess, dbOpen, queries,
                       workers, pool>>

\* Lines 76-85.
GetDecode(r) == Decode(r, "get_me", "get_decoded")

\* Lines 87-92: query the caller's row and return it.
GetQuery(r) ==
    /\ pc[r] = "get_decoded"
    /\ LET user == ResolveCaller(users, local[r].payload)
       IN  IF user = NoUser
           THEN Exit(r, HTTPException(401, "User not found"))
           ELSE Exit(r, Ok(PublicFields(user)))
    /\ queries' = [queries EXCEPT ![r] = 1]
    /\ UNCHANGED <<users, now, issued, req, local, sess, dbOpen, workers,
                   pool>>

\* Lines 101-110.
UpdateDecode(r) == Decode(r, "put_me", "put_decoded")

\* Lines 112-115: load the caller's row into the session.
UpdateLoad(r) ==
    /\ pc[r] = "put_decoded"
    /\ LET user == ResolveCaller(users, local[r].payload)
       IN  IF user = NoUser
           THEN /\ Exit(r, HTTPException(401, "User not found"))
                /\ UNCHANGED local
           ELSE /\ local' = [local EXCEPT ![r].user = user]
                /\ pc' = [pc EXCEPT ![r] = "put_loaded"]
                /\ UNCHANGED resp
    /\ queries' = [queries EXCEPT ![r] = 1]
    /\ UNCHANGED <<users, now, issued, req, sess, dbOpen, workers, pool>>

\* Lines 117-118: `if user_update.name is not None: user.name = ...`
AssignName(user, name) ==
    IF name # NONE THEN [user EXCEPT !.name = name] ELSE user

\* The columns of the session's object that are pending: those whose value
\* differs from the one the row was loaded with.
Pending(obj, loaded) == {c \in {"name", "email"} : obj[c] # loaded[c]}

\* Lines 117-123: assign the name, look the email up, assign it.  When line
\* 122 raises, the name assigned at line 118 is pending on the session's
\* object; it is dropped with the session.
UpdateCheck(r) ==
    /\ pc[r] = "put_loaded"
    /\ \E name \in pool.names \cup {NONE}, email \in Emails \cup {NONE} :
       \E existing_user \in FirstByEmail(users, email) :
       LET user_id == local[r].payload.user_id
           loaded == local[r].user
           named == AssignName(loaded, name)
           collides == email # NONE /\ EmailCollides(existing_user, user_id)
           obj == IF email # NONE /\ ~collides
                  THEN [named EXCEPT !.email = email]
                  ELSE named
       IN  /\ req' = [req EXCEPT ![r].name = name, ![r].email = email]
           /\ queries' = [queries EXCEPT ![r] =
                            IF email # NONE THEN 2 ELSE 1]
           /\ local' = [local EXCEPT ![r].user = obj,
                                     ![r].dirty = Pending(obj, loaded)]
           /\ IF collides
              THEN Exit(r, HTTPException(400, "Email already registered."))
              ELSE /\ pc' = [pc EXCEPT ![r] = "put_checked"]
                   /\ UNCHANGED resp
    /\ UNCHANGED <<users, now, issued, sess, dbOpen, workers, pool>>

\* Line 125: commit; the UPDATE carries the columns whose value changed.
UpdateCommit(r) ==
    /\ pc[r] = "put_checked"
    /\ users' = StoreUpdate(users, local[r].user, local[r].dirty)
    /\ pc' = [pc EXCEPT ![r] = "put_committed"]
    /\ UNCHANGED <<now, issued, req, local, resp, sess, dbOpen, queries,
                   workers, pool>>

\* Lines 126-127: refresh the object from the store and return it.
UpdateRefresh(r) ==
    /\ pc[r] = "put_committed"
    /\ Exit(r, Ok(PublicFields(FirstById(users, local[r].user.id))))
    /\ UNCHANGED <<users, now, issued, req, local, sess, dbOpen, queries,
                   workers, pool>>

\* ----------------------------------------------------- the store raising
\* Lines 36, 56, 88, 113 and 120: the query raises; the handler has read
\* what it reads up to that line, nothing is written and the framework
\* answers 500.
QueryFails(r) ==
    /\ \/ /\ Called(r, "register")
          /\ \E name \in pool.names, email \in Emails,
                password \in pool.passwords :
                req' = [req EXCEPT ![r].name = name, ![r].email = email,
                                   ![r].password = password]
          /\ UNCHANGED local
       \/ /\ Called(r, "login")
          /\ \E email \in Emails : req' = [req EXCEPT ![r].email = email]
          /\ UNCHANGED local
       \/ /\ pc[r] \in {"get_decoded", "put_decoded"}
          /\ UNCHANGED <<req, local>>
       \/ /\ pc[r] = "put_loaded"
          /\ \E name \in pool.names \cup {NONE}, email \in Emails :
             LET obj == AssignName(local[r].user, name)
             IN  /\ req' = [req EXCEPT ![r].name = name, ![r].email = email]
                 /\ local' = [local EXCEPT ![r].user = obj,
                                 ![r].dirty = Pending(obj, local[r].user)]
    /\ queries' = [queries EXCEPT ![r] = @ + 1]
    /\ Exit(r, InternalServerError)
    /\ UNCHANGED <<users, now, issued, sess, dbOpen, workers, pool>>

\* Lines 40-47 and 125: the hasher or the commit raises; nothing is
\* committed and the framework answers 500.
CommitFails(r) ==
    /\ pc[r] \in {"reg_checked", "put_checked"}
    /\ Exit(r, InternalServerError)
    /\ UNCHANGED <<users, now, issued, req, local, sess, dbOpen, queries,
                   workers, pool>>

\* Lines 48 and 126: the refresh raises after the commit went through; the
\* framework answers 500 and the committed change stays.
RefreshFails(r) ==
    /\ pc[r] \in {"reg_committed", "put_committed"}
    /\ Exit(r, InternalServerError)
    /\ UNCHANGED <<users, now, issued, req, local, sess, dbOpen, queries,
                   workers, pool>>

\* ------------------------------------------------------------- release
\* The response leaves and get_db's finally block runs.
Finish(r) ==
    /\ pc[r] = "exit"
    /\ Release(r)
    /\ pc' = [pc EXCEPT ![r] = "idle"]
    /\ req' = [req EXCEPT ![r] = NoReq]
    /\ local' = [local EXCEPT ![r] = NoLocal]
    /\ resp' = [resp EXCEPT ![r] = NoResp]
    /\ queries' = [queries EXCEPT ![r] = 0]
    /\ UNCHANGED <<users, now, issued, workers, pool>>

\* Time passes.
Tick ==
    /\ now < pool.ticks
    /\ now' = now + 1
    /\ UNCHANGED <<users, issued, pc, req, local, resp, sess, dbOpen, queries,
                   workers, pool>>

Next ==
    \/ \E r \in Req : Arrive(r)
    \/ \E r \in Req : RegisterCheck(r)
    \/ \E r \in Req : RegisterCommit(r)
    \/ \E r \in Req : RegisterRefresh(r)
    \/ \E r \in Req : LoginQuery(r)
    \/ \E r \in Req : LoginVerify(r)
    \/ \E r \in Req : GetDecode(r)
    \/ \E r \in Req : GetQuery(r)
    \/ \E r \in Req : UpdateDecode(r)
    \/ \E r \in Req : UpdateLoad(r)
    \/ \E r \in Req : UpdateCheck(r)
    \/ \E r \in Req : UpdateCommit(r)
    \/ \E r \in Req : UpdateRefresh(r)
    \/ \E r \in Req : QueryFails(r)
    \/ \E r \in Req : CommitFails(r)
    \/ \E r \in Req : RefreshFails(r)
    \/ \E r \in Req : Finish(r)
    \/ Tick

Spec == Init /\ [][Next]_vars

\* One request at a time: the single-worker deployment alone.
SeqSpec == InitSeq /\ [][Next]_vars

\* ======================================================================
\* Properties
\* ======================================================================
Active(r) == pc[r] # "idle"

\* Slot r takes the first step of the handler of route `op`.
Starts(r, op) == Called(r, op) /\ pc'[r] # "open"

\* Slot r takes the step at line `at` of its handler.
Leaves(r, at) == pc[r] = at /\ pc'[r] # at

\* Slot r takes the step in which its handler returns or raises.
Ends(r) == pc[r] # "exit" /\ pc'[r] = "exit"

\* Slot r takes a step in which a round trip to the store raises.
Raises(r) == Ends(r) /\ resp'[r] = InternalServerError

HoldersOf(tbl, email) == {u \in Rows(tbl) : u.email = email}

\* C1: in every reachable state no two distinct identities of the store have
\* the same email, whatever the interleaving of register and PUT /me.
C1_EmailUnique ==
    \A i, j \in 1..Len(users) : users[i].email = users[j].email => i = j

\* Slot r serves a register request for `email` up to a passed check.
C2_PassesCheck(r, email) ==
    RegisterCheck(r) /\ pc'[r] = "reg_checked" /\ req'[r].email = email

\* C2: while one register request sits between its existence check and its
\* commit, a second register request whose handler has been called can still
\* take its own check step for the same email, not yet stored, and pass it:
\* nothing serializes the two.
C2_ChecksNotSerialized ==
    \A q \in workers, r \in workers :
        ( /\ q # r
          /\ pc[q] = "reg_checked"
          /\ Called(r, "register")
          /\ HoldersOf(users, req[q].email) = {} )
        => ENABLED C2_PassesCheck(r, req[q].email)

\* C2 witness: both requests have passed the check for one email, which no
\* stored identity has, and neither has committed.
C2_BothPassed ==
    /\ pc[1] = "reg_checked" /\ pc[2] = "reg_checked"
    /\ req[1].email = req[2].email
    /\ HoldersOf(users, req[1].email) = {}

\* C3: a register request whose email a stored identity already has ends at
\* its lookup and leaves the store as it was, whatever its name and password;
\* its answer is 400 "Email already registered." whenever the lookup itself
\* did not raise.
C3_DuplicateRejected ==
    [][\A r \in Req :
        (Starts(r, "register") /\ HoldersOf(users, req'[r].email) # {})
        => /\ pc'[r] = "exit"
           /\ users' = users
           /\ ~Raises(r)
              => resp'[r] = [status |-> 400,
                             detail |-> "Email already registered.",
                             body |-> NoBody]]_vars

\* C3 witness: a rejected register whose name and password both differ from
\* those of the identity that holds the email.
C3_Rejected ==
    \E r \in Req :
        /\ pc[r] = "exit" /\ req[r].op = "register" /\ resp[r].status = 400
        /\ \E u \in HoldersOf(users, req[r].email) :
              /\ u.name # req[r].name
              /\ ~PwdVerify(req[r].password, u.hashed_password)

\* C4: a login with the email and the password some identity was registered
\* with succeeds with token_type "bearer" and a token whose claims decode to
\* that email as sub and that identity's id as user_id.  The login is taken
\* at its answer, with the store still giving its lookup the row it gave.
C4_RegisterThenLogin ==
    [][\A r \in Req :
        ( /\ Leaves(r, "login_queried")
          /\ local[r].user \in FirstByEmail(users, req[r].email) )
        => \A u \in HoldersOf(users, req[r].email) :
            u.hashed_password
                = PwdHash(req'[r].password, u.hashed_password.salt)
            => /\ resp'[r].status = 200
               /\ resp'[r].body.token_type = "bearer"
               /\ LET payload == decode_access_token(
                                    <<Tok(resp'[r].body.access_token)>>, now)
                  IN  /\ payload # NoPayload
                      /\ payload.sub = req[r].email
                      /\ payload.user_id = u.id]_vars

\* C5: a login fails the same way, 401 "Invalid credentials" and no token,
\* whether its lookup found no identity with the email or the password does
\* not verify against the identity found; a lookup that did not raise finds
\* no identity exactly when none has the email.
C5_FailuresIndistinguishable ==
    [][\A r \in Req :
        /\ (Starts(r, "login") /\ ~Raises(r))
           => IF HoldersOf(users, req'[r].email) = {}
              THEN local'[r].user = NoUser
              ELSE local'[r].user \in HoldersOf(users, req'[r].email)
        /\ ( /\ Leaves(r, "login_queried")
             /\ \/ local[r].user = NoUser
                \/ ~PwdVerify(req'[r].password,
                              local[r].user.hashed_password) )
           => /\ pc'[r] = "exit"
              /\ resp'[r] = [status |-> 401, detail |-> "Invalid credentials",
                             body |-> NoBody]
              /\ issued' = issued]_vars

\* C5 witness: a login rejected for a registered email, wrong password.
C5_WrongPassword ==
    \E r \in Req :
        /\ pc[r] = "exit" /\ req[r].op = "login" /\ resp[r].status = 401
        /\ local[r].user # NoUser
        /\ HoldersOf(users, req[r].email) # {}

\* The forms of an Authorization header, read off the header itself.
HeaderMissing(h) == ~h.given \/ Len(h.text) = 0
BearerLetters ==
    <<{66, 98}, {69, 101}, {65, 97}, {82, 114}, {69, 101}, {82, 114}>>
BearerForm(h) ==
    /\ Len(h.text) >= 8
    /\ \A i \in 1..6 : h.text[i] \in {Ch(c) : c \in BearerLetters[i]}
    /\ h.text[7] = SP
CarriesToken(h) == BearerForm(h) /\ Len(h.text) = 8 /\ IsTok(h.text[8])
TokenOf(h) == h.text[8].jwt
\* The token of h is one login minted: signed with the secret and none of
\* the foreign tokens.
Minted(h) ==
    /\ CarriesToken(h)
    /\ TokenOf(h).mac = Sign(SECRET, TokenOf(h).claims)
    /\ TokenOf(h) \notin ForeignTokens
TokenValid(h, clock) ==
    /\ CarriesToken(h)
    /\ TokenOf(h).mac.key = SECRET
    /\ TokenOf(h).mac.over = TokenOf(h).claims
    /\ clock < TokenOf(h).claims.exp
    /\ "user_id" \in DOMAIN TokenOf(h).claims
Rejected(r, detail) ==
    /\ pc'[r] = "exit"
    /\ resp'[r] = [status |-> 401, detail |-> detail, body |-> NoBody]
    /\ users' = users
AuthDetails ==
    {"Authorization header missing", "Invalid authorization format",
     "Invalid or expired token", "User not found"}
Decoded == {"get_decoded", "put_decoded"}

\* C6: GET /me and PUT /me check in this order, each failure a 401: header
\* missing or empty; scheme not "bearer" in any case, or no token; token
\* invalid, expired or without user_id; user_id not in the store.  The store
\* is not queried before the first three have passed.  (A lookup that raises
\* is answered 500, the store's failure and none of the four.)
C6_AuthOrder ==
    [][\A r \in Req :
        /\ (Starts(r, "get_me") \/ Starts(r, "put_me"))
           => LET h == req[r].authorization
              IN  /\ queries'[r] = 0
                  /\ IF HeaderMissing(h)
                     THEN Rejected(r, "Authorization header missing")
                     ELSE IF ~BearerForm(h)
                     THEN Rejected(r, "Invalid authorization format")
                     ELSE IF ~TokenValid(h, now)
                     THEN Rejected(r, "Invalid or expired token")
                     ELSE pc'[r] \in Decoded
        /\ (\E at \in Decoded : Leaves(r, at))
           => /\ queries'[r] = 1
              /\ users' = users
              /\ ~Raises(r)
                 => IF TokenOf(req[r].authorization).claims.user_id
                           \notin 1..Len(users)
                    THEN Rejected(r, "User not found")
                    ELSE resp'[r].detail \notin AuthDetails]_vars

\* C6 witness: a PUT /me with a well-formed header in mixed case whose token
\* was altered, rejected as invalid before any query.
C6_TamperedRejected ==
    \E r \in Req :
        /\ pc[r] = "exit" /\ req[r].op = "put_me"
        /\ CarriesToken(req[r].authorization)
        /\ req[r].authorization.text[2] = Ch(69)
        /\ TokenOf(req[r].authorization).mac.over
              # TokenOf(req[r].authorization).claims
        /\ resp[r].detail = "Invalid or expired token"
        /\ queries[r] = 0

\* C7: an authenticated PUT /me with an email, whose lookup of that email
\* did not raise, answers 400 exactly when an identity with another id has
\* that email; with the caller's own email it goes on to commit and the
\* stored email stays.
C7_DuplicateExactly ==
    [][\A r \in Req :
        (Leaves(r, "put_loaded") /\ req'[r].email # NONE /\ ~Raises(r))
        => LET uid == local[r].payload.user_id
               others == {u \in HoldersOf(users, req'[r].email) : u.id # uid}
           IN  /\ resp'[r].status = 400 <=> others # {}
               /\ users[uid].email = req'[r].email
                  => /\ pc'[r] = "put_checked"
                     /\ local'[r].user.email = users[uid].email]_vars

\* What login can answer for (email, password) over table tbl.
LoginAnswers(tbl, email, password, clock) ==
    {LoginResponse(u, password, clock) : u \in FirstByEmail(tbl, email)}

\* C8: once a PUT /me has committed a change of its user's email from old to
\* new, a login with old and the user's password is refused as long as no
\* identity has old, and a login with new and that password yields a token
\* for the same user_id.
C8_LoginFollowsEmail ==
    [][\A r \in Req :
        ( /\ Leaves(r, "put_checked") /\ pc'[r] = "put_committed"
          /\ users[local[r].user.id].email # users'[local[r].user.id].email )
        => LET uid == local[r].user.id
               old == users[uid].email
               new == users'[uid].email
           IN  \A p \in Passwords :
                 PwdVerify(p, users'[uid].hashed_password) =>
                 /\ HoldersOf(users', old) = {} =>
                       LoginAnswers(users', old, p, now)
                         = {[status |-> 401, detail |-> "Invalid credentials",
                             body |-> NoBody]}
                 /\ \A a \in LoginAnswers(users', new, p, now) :
                       /\ a.status = 200
                       /\ a.body.access_token.claims.user_id = uid]_vars

\* C9: a token login minted expires TTL after its issue; presented to GET or
\* PUT /me in a well-formed header it is refused as invalid or expired
\* exactly when the clock has reached its expiry by the time the handler
\* decodes it, and is otherwise accepted.
C9_ValidUntilExpiry ==
    [][\A r \in Req :
        /\ (Leaves(r, "login_queried") /\ resp'[r].status = 200)
           => resp'[r].body.access_token.claims.exp = now + TTL
        /\ ( /\ Starts(r, "get_me") \/ Starts(r, "put_me")
             /\ Minted(req[r].authorization) )
           => IF now >= TokenOf(req[r].authorization).claims.exp
              THEN Rejected(r, "Invalid or expired token")
              ELSE /\ pc'[r] \in Decoded
                   /\ local'[r].payload
                         = TokenOf(req[r].authorization).claims]_vars

\* C9 witness: a minted token presented at or after its expiry and refused.
C9_ExpiredRefused ==
    \E r \in Req :
        /\ pc[r] = "exit" /\ req[r].op = "get_me"
        /\ CarriesToken(req[r].authorization)
        /\ TokenOf(req[r].authorization) \in issued
        /\ now >= TokenOf(req[r].authorization).claims.exp
        /\ resp[r].detail = "Invalid or expired token"

\* C10: a request in flight holds an open session of its own; once a request
\* has ended, however it ended, its session is closed: the open sessions are
\* exactly those of the requests in flight, one each.
C10_SessionScoped ==
    /\ \A r \in Req : IF Active(r) THEN sess[r] \in dbOpen
                                   ELSE sess[r] = NoSession
    /\ dbOpen = {sess[r] : r \in {q \in Req : Active(q)}}
    /\ \A r, q \in Req : Active(r) /\ Active(q) /\ r # q => sess[r] # sess[q]

\* C10 witness: a handler has raised and a second request is in flight, each
\* with its own open session.
C10_RaisedBesideAnother ==
    /\ pc[1] = "exit" /\ resp[1].status \in {400, 401, 500}
    /\ Active(2)
    /\ {sess[1], sess[2]} \subseteq dbOpen /\ sess[1] # sess[2]

Committed == {"reg_committed", "put_committed"}

\* The frame of a step, with `refusals` the statuses that count as the
\* request having been turned down.
C11_FrameOf(refusals) ==
    /\ Len(users') >= Len(users)
    /\ \A i \in 1..Len(users) :
          /\ users'[i].id = users[i].id
          /\ users'[i].hashed_password = users[i].hashed_password
    /\ users' # users =>
          \E r \in Req :
             \/ /\ Leaves(r, "reg_checked") /\ pc'[r] = "reg_committed"
                /\ req[r].op = "register"
                /\ Len(users') = Len(users) + 1
                /\ SubSeq(users', 1, Len(users)) = users
                /\ users'[Len(users')].email = req[r].email
                /\ users'[Len(users')].name = req[r].name
             \/ /\ Leaves(r, "put_checked") /\ pc'[r] = "put_committed"
                /\ req[r].op = "put_me"
                /\ Len(users') = Len(users)
                /\ \A i \in 1..Len(users) :
                      i # TokenOf(req[r].authorization).claims.user_id
                      => users'[i] = users[i]
    /\ \A r \in Req :
          /\ (pc[r] # pc'[r] /\ {req[r].op, req'[r].op} \cap
                                    {"login", "get_me"} # {})
             => users' = users
          /\ (Ends(r) /\ resp'[r].status \in refusals)
             => /\ pc[r] \notin Committed
                /\ users' = users
          /\ (pc[r] \in Committed /\ pc'[r] # pc[r]) => Ends(r)

\* C11 as it stands: the store changes only by a register, which appends one
\* identity, or by a PUT /me, which changes only name and email of the
\* identity its token names; login, GET /me and every request that is not
\* answered 200 leave it as it was; no identity is removed and none has its
\* id or password hash changed.
C11_OnlySuccessChanges == [][C11_FrameOf({400, 401, 500})]_vars

\* C11, amended: as above, with the requests that leave the store as it was
\* being login, GET /me and every request answered 400 or 401; a register or
\* PUT /me answered 500 has committed its change when the failure came from
\* the refresh after the commit.
C11_Frame == [][C11_FrameOf({400, 401})]_vars

\* C11 witness: a PUT /me has committed a change beside a second identity
\* and has been answered.
C11_UpdatedBesideAnother ==
    \E r \in Req :
        /\ pc[r] = "exit" /\ req[r].op = "put_me" /\ resp[r].status = 200
        /\ local[r].dirty # {}
        /\ Len(users) = 2

\* What a PUT /me with this header and body answers, and the store it
\* leaves, when it runs over table tbl with no other request in between.
PutOutcomes(tbl, authorization, name, email, clock) ==
    LET a == Authenticate(authorization, clock)
    IN  IF a.error # NoResp
        THEN {[resp |-> a.error, store |-> tbl]}
        ELSE
        LET loaded == ResolveCaller(tbl, a.payload)
        IN  IF loaded = NoUser
            THEN {[resp |-> HTTPException(401, "User not found"),
                   store |-> tbl]}
            ELSE
            LET named == IF name # NONE
                         THEN [loaded EXCEPT !.name = name] ELSE loaded
                obj == IF email # NONE
                       THEN [named EXCEPT !.email = email] ELSE named
                dirty == {c \in {"name", "email"} : obj[c] # loaded[c]}
                after == StoreUpdate(tbl, obj, dirty)
            IN  {IF email # NONE /\ EmailCollides(e, loaded.id)
                 THEN [resp |-> HTTPException(400,
                                   "Email already registered."),
                       store |-> tbl]
                 ELSE [resp |-> Ok(PublicFields(after[loaded.id])),
                       store |-> after]
                 : e \in FirstByEmail(tbl, email)}

\* C12: a PUT /me that has just succeeded, sent again with the same token
\* (still unexpired) and the same body, succeeds with the same response and
\* leaves the store as the first left it; a login or GET /me that has just
\* succeeded succeeds again and changes nothing; a register that has just
\* succeeded is refused with 400 when sent again.
C12_RetrySafe ==
    [][\A r \in Req :
        (Ends(r) /\ resp'[r].status = 200) =>
        /\ ( /\ req[r].op = "put_me"
             /\ TokenValid(req[r].authorization, now) )
           => PutOutcomes(users, req[r].authorization, req[r].name,
                          req[r].email, now)
                = {[resp |-> resp'[r], store |-> users]}
        /\ req[r].op = "login"
           => \A a \in LoginAnswers(users, req'[r].email,
                                    req'[r].password, now) :
                 a.status = 200
        /\ ( /\ req[r].op = "get_me"
             /\ TokenValid(req[r].authorization, now) )
           => Ok(PublicFields(ResolveCaller(users,
                    Authenticate(req[r].authorization, now).payload)))
                 = resp'[r]
        /\ req[r].op = "register"
           => \A e \in FirstByEmail(users, req[r].email) :
                 IsRegistered(e)]_vars

\* The details an error response can carry.
ErrorDetails ==
    AuthDetails \cup {"Email already registered.", "Invalid credentials",
                      "Internal Server Error"}

\* C13: no response carries a password or a stored hash: a 200 of register,
\* GET /me or PUT /me has exactly the fields id, name and email of a stored
\* row; a 200 of login has exactly access_token and token_type, and the
\* token's claims are sub and user_id (with the expiry issue adds); every
\* failure has no body and one of the fixed details.
C13_NoSecretInResponse ==
    \A r \in Req :
        pc[r] = "exit" =>
        IF resp[r].status # 200
        THEN /\ resp[r].body = NoBody
             /\ resp[r].detail \in ErrorDetails
             /\ resp[r].detail \notin Passwords
        ELSE IF req[r].op = "login"
        THEN /\ DOMAIN resp[r].body = {"access_token", "token_type"}
             /\ resp[r].body.token_type = "bearer"
             /\ DOMAIN resp[r].body.access_token.claims \ {"exp"}
                    = {"sub", "user_id"}
             /\ resp[r].body.access_token.claims.sub = req[r].email
             /\ resp[r].body.access_token.claims.sub \notin Passwords
             /\ resp[r].body.access_token.claims.user_id \in 1..Len(users)
             /\ resp[r].body.access_token.mac.over
                    = resp[r].body.access_token.claims
        ELSE /\ DOMAIN resp[r].body = {"id", "name", "email"}
             /\ resp[r].body.id \in 1..Len(users)
             /\ resp[r].body.name \in Names
             /\ resp[r].body.email \in Emails
             /\ {resp[r].body.name, resp[r].body.email} \cap Passwords = {}

\* C13 witness: a login has answered 200 for a stored identity with a hash.
C13_LoginAnswered ==
    \E r \in Req :
        /\ pc[r] = "exit" /\ req[r].op = "login" /\ resp[r].status = 200
        /\ PwdVerify(req[r].password,
              users[resp[r].body.access_token.claims.user_id].hashed_password)

\* C14: when requests run one at a time, from the empty store on, every
\* email is held by at most one identity after any sequence of registers
\* and PUT /me requests.
C14_UniqueOneAtATime ==
    \A e \in Emails : Cardinality(HoldersOf(users, e)) <= 1

\* C14 witness: with two identities stored, a PUT /me asking for the other
\* identity's email has been refused.
C14_TakenEmailRefused ==
    \E r \in Req :
        /\ workers = {1}
        /\ pc[r] = "exit" /\ req[r].op = "put_me" /\ resp[r].status = 400
        /\ Len(users) = 2
        /\ \E u \in HoldersOf(users, req[r].email) :
              u.id # TokenOf(req[r].authorization).claims.user_id

\* C15: an authenticated PUT /me with a name and with an email that an
\* identity of another id holds answers 400 "Email already registered."
\* (when the lookup of the email did not raise) with the name assigned on the
\* request's object and nothing committed; the request then ends with the
\* store as it was and the object dropped.
C15_CollisionPersistsNothing ==
    [][\A r \in Req :
        /\ ( /\ Leaves(r, "put_loaded")
             /\ req'[r].name # NONE /\ req'[r].email # NONE
             /\ \E u \in HoldersOf(users, req'[r].email) :
                   u.id # local[r].payload.user_id
             /\ ~Raises(r) )
           => /\ pc'[r] = "exit"
              /\ resp'[r] = HTTPException(400, "Email already registered.")
              /\ local'[r].user
                    = [local[r].user EXCEPT !.name = req'[r].name]
              /\ local'[r].dirty \subseteq {"name"}
              /\ users' = users
        /\ ( /\ pc[r] = "exit" /\ pc'[r] # "exit"
             /\ req[r].op = "put_me" /\ resp[r].status = 400 )
           => /\ users' = users
              /\ local'[r] = NoLocal]_vars

\* C16: a GET /me or PUT /me that presents a minted, unexpired token is
\* served as the identity whose id is the token's user_id, whatever email
\* the token's sub claim records and whoever holds that email now: unless
\* its lookup raises, that row is the one GET /me returns and the one PUT /me
\* loads; it is the only one PUT /me writes, and the one it returns.
C16_ResolvedByUserId ==
    [][\A r \in Req :
        /\ ( /\ Starts(r, "get_me") \/ Starts(r, "put_me")
             /\ TokenValid(req[r].authorization, now)
             /\ Minted(req[r].authorization) )
           => /\ pc'[r] \in Decoded
              /\ local'[r].payload.user_id
                    = TokenOf(req[r].authorization).claims.user_id
        /\ pc[r] \in {"get_decoded", "put_decoded", "put_loaded",
                      "put_checked", "put_committed"} /\ pc'[r] # pc[r]
           => LET uid == TokenOf(req[r].authorization).claims.user_id
              IN  uid \in 1..Len(users) =>
                  /\ (Leaves(r, "get_decoded") /\ ~Raises(r))
                     => resp'[r] = Ok(PublicFields(users[uid]))
                  /\ (Leaves(r, "put_decoded") /\ ~Raises(r))
                     => pc'[r] = "put_loaded" /\ local'[r].user = users[uid]
                  /\ Leaves(r, "put_loaded")
                     => local'[r].user.id = uid
                  /\ Leaves(r, "put_checked")
                     => \A i \in 1..Len(users) :
                           i # uid => users'[i] = users[i]
                  /\ (Leaves(r, "put_committed") /\ resp'[r].status = 200)
                     => resp'[r] = Ok(PublicFields(users[uid]))]_vars

\* C16 witness: GET /me has answered 200 with the identity of the token's
\* user_id although the email in the token's sub claim now belongs to
\* another identity.
C16_SubHeldByAnother ==
    \E r \in Req :
        /\ pc[r] = "exit" /\ req[r].op = "get_me" /\ resp[r].status = 200
        /\ LET c == TokenOf(req[r].authorization).claims
           IN  /\ resp[r].body.id = c.user_id
               /\ users[c.user_id].email # c.sub
               /\ \E u \in HoldersOf(users, c.sub) : u.id # c.user_id

\* C17: every token login has minted names, in its user_id, an identity that
\* is in the store, and stays there after any steps of register, login,
\* GET /me and PUT /me; so no GET /me or PUT /me presenting such a token
\* answers "User not found".
C17_MintedTokenResolves ==
    [][/\ \A t \in issued' :
             /\ FirstById(users', t.claims.user_id) # NoUser
             /\ FirstById(users', t.claims.user_id).id = t.claims.user_id
       /\ Len(users') >= Len(users)
       /\ \A r \in Req :
             /\ ( /\ Starts(r, "get_me") \/ Starts(r, "put_me")
                  /\ Minted(req[r].authorization) )
                => /\ resp'[r].detail # "User not found"
                   /\ TokenOf(req[r].authorization).claims.user_id
                         \in 1..Len(users)
             /\ ( /\ \E at \in Decoded : Leaves(r, at)
                  /\ Minted(req[r].authorization) )
                => resp'[r].detail # "User not found"]_vars

\* C17 witness: after a second register and a change of email, a PUT /me
\* presenting the minted token has been served.
C17_ServedAfterChanges ==
    \E r \in Req :
        /\ pc[r] = "exit" /\ req[r].op = "put_me" /\ resp[r].status = 200
        /\ TokenOf(req[r].authorization) \in issued
        /\ Len(users) = 2
        /\ users[TokenOf(req[r].authorization).claims.user_id].email
              # TokenOf(req[r].authorization).claims.sub
        /\ local[r].dirty = {}
====
